---- MODULE Spec2Model ----
(***************************************************************************)
(* A model of the DAISY Online client (package dodp): the SOAP envelope,   *)
(* the body extractor, the transport invoker Client.call and the operation *)
(* facade.  The repository holds two revisions of the transport:           *)
(*   "stream"  src/unnamed/part_000  body.UnmarshalXML streams the first   *)
(*             child of Body into the destination; errors are wrapped.     *)
(*   "bytes"   src/client.go         envelopeResponse captures the inner   *)
(*             XML of Body as bytes, a second xml.Unmarshal decodes them.  *)
(* and src/unnamed/part_001 holds the older transport "legacy" (package    *)
(* daisyonline).  One Client is built in the initial state; the service    *)
(* and the network are the environment.                                    *)
(***************************************************************************)
EXTENDS Naturals, Sequences, FiniteSets, TLC

VARIABLES
    variant,     \* which revision of the transport this Client is
    url,         \* Client.url
    timeout,     \* Client.httpClient.Timeout ("0s": none)
    ctx,         \* Client.ctx: "none" (bytes), "todo", "live", "cancelled", "nil"
    jar,         \* httpClient.Jar: the cookies stored
    pc,          \* "idle", "sent" (inside httpClient.Do), "done" (facade returned)
    op,          \* the facade operation invoked ("" when idle)
    req,         \* the request handed to httpClient.Do (NoReq when none)
    posts,       \* calls of httpClient.Do made by this invocation
    doOut,       \* what httpClient.Do returned: [err, resp]
    decodes,     \* XML decodes begun by this invocation
    decodedAs,   \* "none", "dest" (rs) or "fault": what Body.Content pointed to
    dest,        \* the facade's response struct (resp := xxxResponse{})
    callErr,     \* the error Client.call returned
    result,      \* the facade's first return value
    err,         \* the facade's second return value
    idleClosed,  \* CloseIdleConnections ran in this invocation
    codec,       \* a value on its way through Encode and the body extractor
    session,     \* what the caller has invoked so far: "fresh", "on" (LogOn
                 \* was the last of LogOn/LogOff), "off" (LogOff was)
    peer,        \* a second Client of the same revision: [jar, sent]
    scan,        \* body.UnmarshalXML at work on the tokens of a Body
    auth,        \* Authentication (src/unnamed/part_001) at work
    racer        \* a second call running on this Client at the same time

vars == <<variant, url, timeout, ctx, jar, pc, op, req, posts, doOut, decodes,
          decodedAs, dest, callErr, result, err, idleClosed, codec, session, peer,
          scan, auth, racer>>

---------------------------------------------------------------------------
(* Bounds of the model *)

\* trailing sibling elements after the first child of Body
MaxSiblings == 1

---------------------------------------------------------------------------
(* Program constants *)

StatusOK == 200

SoapNS == "http://schemas.xmlsoap.org/soap/envelope/"

DaisyNS == "http://www.daisy.org/ns/daisy-online/"

BookmarkNS == "http://www.daisy.org/z3986/2005/bookmark/"

Variants == {"stream", "bytes"}

\* with the earlier revision of the package (daisyonline, src/unnamed/part_001)
Revisions == Variants \cup {"legacy"}

\* facade operations returning (bool, error)
BoolOps(v) ==
    {"logOn", "logOff", "setReadingSystemAttributes", "issueContent", "returnContent"}
    \cup (IF v = "stream" THEN {"setBookmarks", "markAnnouncementsAsRead"} ELSE {})

\* facade operations returning (*T, error)
PtrOps(v) ==
    {"getServiceAttributes", "getContentList", "getContentMetadata",
     "getContentResources", "getQuestions", "getServiceAnnouncements"}
    \cup (IF v = "stream" THEN {"getBookmarks"} ELSE {})

Ops(v) == BoolOps(v) \cup PtrOps(v)

AllOps == Ops("stream") \cup Ops("bytes")

IsBoolOp(o) == o \in BoolOps("stream")

\* the name of the response struct's single field element
ResultField(o) ==
    CASE o = "getServiceAttributes"    -> "serviceAttributes"
      [] o = "getContentList"          -> "contentList"
      [] o = "getContentMetadata"      -> "contentMetadata"
      [] o = "getContentResources"     -> "resources"
      [] o = "getQuestions"            -> "questions"
      [] o = "getServiceAnnouncements" -> "announcements"
      [] o = "getBookmarks"            -> "bookmarkSet"
      [] OTHER                         -> o \o "Result"

\* the response struct's XMLName: the revision "stream" qualifies it
ResponseName(o) == o \o "Response"

RespType(v, o) ==
    [name |-> ResponseName(o),
     ns |-> IF v = "stream" THEN DaisyNS ELSE "",
     field |-> ResultField(o),
     isBool |-> IsBoolOp(o),
     \* the XMLName namespace of the field's own struct type
     nestedNS |-> IF o = "getBookmarks" THEN BookmarkNS ELSE ""]

FaultType ==
    [name |-> "Fault", ns |-> "", field |-> "faultstring", isBool |-> FALSE,
     nestedNS |-> ""]

---------------------------------------------------------------------------
(* Errors *)

Nil == [kind |-> "nil"]

\* xml.UnmarshalError, *xml.SyntaxError, strconv errors, io.EOF
DecodeErr(why) == [kind |-> "decode", why |-> why]

\* gzip.ErrHeader and friends from gzip.NewReader
GzipErr == [kind |-> "gzip"]

\* *url.Error from httpClient.Do
TransportErr(cause) == [kind |-> "transport", cause |-> cause]

\* the error of http.NewRequest / http.NewRequestWithContext
RequestErr(why) == [kind |-> "request", why |-> why]

\* resp.Status, the status line's text
StatusText(st) ==
    CASE st = 200 -> "200 OK"
      [] st = 201 -> "201 Created"
      [] st = 204 -> "204 No Content"
      [] st = 404 -> "404 Not Found"
      [] st = 500 -> "500 Internal Server Error"
      [] OTHER    -> ""

\* errors.New(resp.Status)
StatusErr(st) == [kind |-> "status", text |-> StatusText(st)]

\* a *Fault used as an error
FaultErr(f) == [kind |-> "fault", faultstring |-> f.payload]

\* (mutant) Error() returns the element's name instead of the Faultstring
FaultErrorName(e) == "Fault"

\* func (f *Fault) Error() string
FaultError(e) == e.faultstring

\* fmt.Errorf(prefix + "%w", inner)
Wrap(prefix, inner) == [kind |-> "wrap", prefix |-> prefix, inner |-> inner]

RECURSIVE ErrorString(_)
ErrorString(e) ==
    CASE e.kind = "wrap"      -> e.prefix \o ErrorString(e.inner)
      [] e.kind = "fault"     -> FaultError(e)
      [] e.kind = "decode"    -> "xml: " \o e.why
      [] e.kind = "gzip"      -> "gzip: invalid header"
      [] e.kind = "transport" -> "Post: " \o e.cause
      [] e.kind = "request"   -> "net/http: " \o e.why
      [] e.kind = "status"    -> e.text
      [] OTHER                -> ""

\* errors.Unwrap down to the innermost error
RECURSIVE Innermost(_)
Innermost(e) == IF e.kind = "wrap" THEN Innermost(e.inner) ELSE e

\* errors.As(err, new(*Fault))
IsFault(e) == Innermost(e).kind = "fault"

IsTransport(e) == Innermost(e).kind = "transport"

IsDecode(e) == Innermost(e).kind \in {"decode", "gzip"}

---------------------------------------------------------------------------
(* XML documents as the decoder sees them *)

\* An element of Body: its resolved name, one child element (kid = "" when
\* it has none) with the child's resolved namespace, and the child's text.
Element(name, ns, kid, kns, text) ==
    [name |-> name, ns |-> ns, kid |-> kid, kns |-> kns, text |-> text]

\* Where the byte stream stops being well-formed XML (a syntax error, a
\* truncated transfer, a failing read of the body): "none", or before the
\* Body's content ("envelope"), inside the first child before its own child
\* is complete ("first"), inside the first child after it ("firstLate"),
\* inside a trailing sibling ("trailing"), after </Body> ("tail").
BadPositions == {"none", "envelope", "first", "firstLate", "trailing", "tail"}

Document(root, rootNs, hasBody, body, bad) ==
    [root |-> root, rootNs |-> rootNs, hasBody |-> hasBody, body |-> body, bad |-> bad]

\* A response struct or a Fault as xml.Unmarshal fills it: XMLName, the
\* bool result (flag) or the nested value / Faultstring (payload).
ZeroDest == [xmlname |-> "", flag |-> FALSE, payload |-> ""]

Outcome(e, d) == [err |-> e, dest |-> d]

\* strconv.ParseBool(strings.TrimSpace(src)) on the texts of the model
ParseBoolOK(text) == text \in {"1", "t", "T", "TRUE", "true", "True", "0", "f", "F", "FALSE", "false", "False"}

ParseBool(text) == text \in {"1", "t", "T", "TRUE", "true", "True"}

\* encoding/xml matches a child element to a struct field by local name and,
\* when the enclosing struct's XMLName has a namespace, by that namespace.
FieldMatches(T, e) == e.kid = T.field /\ (T.ns = "" \/ T.ns = e.kns)

\* Decoder.DecodeElement(v, &start) into a struct with an XMLName field.
DecodeElement(T, d, e, bad) ==
    IF T.name # e.name
    THEN Outcome(DecodeErr("expected element type <" \o T.name \o ">"), d)
    ELSE IF T.ns # "" /\ T.ns # e.ns
    THEN Outcome(DecodeErr("expected element <" \o T.name \o "> in name space"), d)
    ELSE LET d1 == [d EXCEPT !.xmlname = e.name]
             d2 == IF T.isBool
                   THEN [d1 EXCEPT !.flag = ParseBool(e.text)]
                   ELSE [d1 EXCEPT !.payload = e.text]
         IN  IF bad = "first"
             THEN Outcome(DecodeErr("syntax error"), d1)
             ELSE IF ~FieldMatches(T, e)
             THEN Outcome(IF bad = "firstLate" THEN DecodeErr("syntax error") ELSE Nil, d1)
             ELSE IF T.nestedNS # "" /\ T.nestedNS # e.kns
             THEN Outcome(DecodeErr("expected element <" \o T.field \o "> in name space"), d1)
             ELSE IF T.isBool /\ ~ParseBoolOK(e.text)
             THEN Outcome(DecodeErr("strconv.ParseBool: invalid syntax"), d1)
             ELSE IF ~T.isBool /\ T.name # "Fault" /\ e.text = "maybe"
             THEN Outcome(DecodeErr("strconv: invalid syntax in nested value"), d1)
             ELSE Outcome(IF bad = "firstLate" THEN DecodeErr("syntax error") ELSE Nil, d2)

\* Decoder.Skip(): consume tokens up to the end of Body without looking at
\* the names or the content of the elements it passes.
RECURSIVE Skip(_, _)
Skip(rest, bad) ==
    IF rest = <<>> THEN Nil
    ELSE IF bad = "trailing" THEN DecodeErr("syntax error")
    ELSE Skip(Tail(rest), bad)

\* (mutant) the loop without "return d.Skip()": every start element of Body
\* is decoded into Content in turn
RECURSIVE BodyUnmarshalXMLNoReturn(_, _, _, _)
BodyUnmarshalXMLNoReturn(T, d, body, bad) ==
    IF body = <<>> THEN Outcome(Nil, d)
    ELSE LET r == DecodeElement(T, d, Head(body), bad)
         IN  IF r.err # Nil THEN r
             ELSE BodyUnmarshalXMLNoReturn(T, r.dest, Tail(body), bad)

\* body.UnmarshalXML: the first start element is decoded into Content, the
\* rest of Body is skipped; without any start element the loop ends at the
\* io.EOF the decoder reports at </Body> and Content is left alone.
BodyUnmarshalXML(T, d, body, bad) ==
    IF body = <<>> THEN Outcome(Nil, d)
    ELSE LET r == DecodeElement(T, d, Head(body), bad)
         IN  IF r.err # Nil THEN r
             ELSE Outcome(Skip(Tail(body), bad), r.dest)

\* dec.Decode(&respEnv) with respEnv of type envelope (revision "stream")
EnvelopeDecode(T, d, doc) ==
    IF doc.bad = "envelope" THEN Outcome(DecodeErr("syntax error"), d)
    ELSE IF doc.root # "Envelope"
    THEN Outcome(DecodeErr("expected element type <Envelope>"), d)
    ELSE IF doc.rootNs # SoapNS
    THEN Outcome(DecodeErr("expected element <Envelope> in name space"), d)
    ELSE LET b == IF doc.hasBody THEN BodyUnmarshalXML(T, d, doc.body, doc.bad)
                  ELSE Outcome(Nil, d)
         IN  IF b.err # Nil THEN b
             ELSE IF doc.bad = "tail" THEN Outcome(DecodeErr("syntax error"), b.dest)
             ELSE b

\* xml.NewDecoder(reader).Decode(&envresp) with envresp of type
\* envelopeResponse (revision "bytes"): the whole Envelope is tokenised and
\* the raw inner XML of Body is kept.
EnvelopeResponseDecode(doc) ==
    IF doc.bad = "envelope" THEN [err |-> DecodeErr("syntax error"), content |-> <<>>]
    ELSE IF doc.root # "Envelope"
    THEN [err |-> DecodeErr("expected element type <Envelope>"), content |-> <<>>]
    ELSE IF doc.bad # "none" THEN [err |-> DecodeErr("syntax error"), content |-> <<>>]
    ELSE [err |-> Nil, content |-> IF doc.hasBody THEN doc.body ELSE <<>>]

\* xml.Unmarshal(envresp.Body.Content, v): a fresh decoder over the bytes
\* finds the first start element and decodes it; with none it returns io.EOF.
Unmarshal(T, d, content) ==
    IF content = <<>> THEN Outcome(DecodeErr("EOF"), d)
    ELSE DecodeElement(T, d, Head(content), "none")

---------------------------------------------------------------------------
(* The HTTP exchange *)

NoReq == [method |-> "", url |-> "", header |-> <<>>, cookies |-> {}, body |-> ""]

\* (mutant) the SOAPAction header carries the bare operation name
NewRequestBareAction(o, cookies) ==
    [method |-> "POST",
     url |-> url,
     header |-> << <<"Content-Type", "text/xml; charset=utf-8">>,
                   <<"Accept", "text/xml">>,
                   <<"Accept-Encoding", "gzip">>,
                   <<"SOAPAction", o>> >>,
     cookies |-> cookies,
     body |-> o]

\* the *http.Request call builds: the POST, its four headers, the cookies
\* the jar adds, the name of the element inside the request's Body
NewRequest(o, cookies) ==
    [method |-> "POST",
     url |-> url,
     header |-> << <<"Content-Type", "text/xml; charset=utf-8">>,
                   <<"Accept", "text/xml">>,
                   <<"Accept-Encoding", "gzip">>,
                   <<"SOAPAction", "/" \o o>> >>,
     cookies |-> cookies,
     body |-> o]

\* bytes that are not XML at all (a gzip stream read as text)
NotXML == Document("", "", FALSE, <<>>, "envelope")

\* A response of httpClient.Do: the status, the Set-Cookie, the
\* Content-Encoding header (encoding), how the body's bytes carry the
\* document (coding: "identity" or "gzip"), where a gzip stream is damaged
\* ("none", "header", "data", "trailer"), and the document the service wrote.
Response(st, enc, cod, dmg, ck, doc) ==
    [status |-> st, encoding |-> enc, coding |-> cod, damage |-> dmg,
     cookie |-> ck, doc |-> doc]

\* the *http.Request the revision "legacy" builds: no Accept-Encoding
NewRequestLegacy(o, cookies) ==
    [method |-> "POST",
     url |-> url,
     header |-> << <<"Content-Type", "text/xml; charset=utf-8">>,
                   <<"Accept", "text/xml">>,
                   <<"SOAPAction", "/" \o o>> >>,
     cookies |-> cookies,
     body |-> o]

\* the values a header has in a request
HeaderValues(r, key) == {r.header[i][2] : i \in {j \in DOMAIN r.header : r.header[j][1] = key}}

HeaderCount(r, key) == Cardinality({j \in DOMAIN r.header : r.header[j][1] = key})

\* httpClient.Do with the default Transport (the http.Client is built without
\* one): a request without Accept-Encoding is sent with Accept-Encoding:
\* gzip, and the Transport then gunzips the response itself
TransportRequest(r) ==
    IF HeaderCount(r, "Accept-Encoding") = 0
    THEN [r EXCEPT !.header = Append(r.header, <<"Accept-Encoding", "gzip">>)]
    ELSE r

NoResp == Response(0, "", "identity", "none", "none", Document("", "", FALSE, <<>>, "none"))

\* gzip.NewReader(resp.Body) reads the gzip header and fails on bytes that
\* are not a gzip stream or whose header is broken
GzipNewReaderOK(r) == r.coding = "gzip" /\ r.damage # "header"

\* what comes out of the gzip reader: the document; damaged compressed data
\* end it with a read error before the Envelope is complete; a damaged
\* trailer (checksum, size) is reported with or after the last bytes of the
\* stream, behind the complete document
Inflate(r) == IF r.damage = "data" THEN [r.doc EXCEPT !.bad = "envelope"] ELSE r.doc

\* the body read as it was received
Raw(r) == IF r.coding = "gzip" THEN NotXML ELSE r.doc

\* (mutant) the body is never gunzipped
ReaderRaw(r) == Raw(r)

\* var reader io.Reader = resp.Body, replaced by the gzip reader when the
\* response declares Content-Encoding: gzip
Reader(r) == IF r.encoding = "gzip" THEN Inflate(r) ELSE Raw(r)

\* the gzip reader cannot be built
GzipFails(r) == r.encoding = "gzip" /\ ~GzipNewReaderOK(r)

NoDo == [err |-> Nil, resp |-> NoResp]

\* the result of Client.call: its error, the destination rs as it leaves it,
\* the XML decodes it began, what Body.Content pointed to
CallResult(e, d, n, as) == [err |-> e, dest |-> d, decodes |-> n, as |-> as]

\* (mutant) failure decided by the 2xx range
BytesIsFailure2xx(status) == status < 200 \/ status > 299

\* resp.StatusCode != http.StatusOK, in either revision
StreamIsFailure(status) == status # StatusOK

BytesIsFailure(status) == status # StatusOK

\* (mutant) the Fault formatted with %v: its text is kept, the value is not
WrapFaultText(f) == [kind |-> "text", msg |-> "fault: " \o f.payload]

\* fmt.Errorf("fault: %w", fault)
WrapFault(f) == Wrap("fault: ", FaultErr(f))

\* (mutant) the error of httpClient.Do is not looked at
CallStreamIgnoresDoErr(o, out) ==
    IF GzipFails(out.resp) THEN CallResult(GzipErr, ZeroDest, 0, "none")
    ELSE IF StreamIsFailure(out.resp.status)
    THEN LET r == EnvelopeDecode(FaultType, ZeroDest, Reader(out.resp))
         IN  IF r.err # Nil THEN CallResult(r.err, ZeroDest, 1, "fault")
             ELSE CallResult(WrapFault(r.dest), ZeroDest, 1, "fault")
    ELSE LET r == EnvelopeDecode(RespType("stream", o), ZeroDest, Reader(out.resp))
         IN  CallResult(r.err, r.dest, 1, "dest")

\* (mutant) failure decided by the shape of the body: a first element named
\* Fault is decoded as a Fault whatever the status
CallStreamByShape(o, out) ==
    IF out.err # Nil THEN CallResult(out.err, ZeroDest, 0, "none")
    ELSE IF GzipFails(out.resp) THEN CallResult(GzipErr, ZeroDest, 0, "none")
    ELSE IF \/ StreamIsFailure(out.resp.status)
            \/ (Reader(out.resp).body # <<>> /\ Head(Reader(out.resp).body).name = "Fault")
    THEN LET r == EnvelopeDecode(FaultType, ZeroDest, Reader(out.resp))
         IN  IF r.err # Nil THEN CallResult(r.err, ZeroDest, 1, "fault")
             ELSE CallResult(WrapFault(r.dest), ZeroDest, 1, "fault")
    ELSE LET r == EnvelopeDecode(RespType("stream", o), ZeroDest, Reader(out.resp))
         IN  CallResult(r.err, r.dest, 1, "dest")

\* Client.call of src/unnamed/part_000 from the return of httpClient.Do on
CallStream(o, out) ==
    IF out.err # Nil THEN CallResult(out.err, ZeroDest, 0, "none")
    ELSE IF GzipFails(out.resp) THEN CallResult(GzipErr, ZeroDest, 0, "none")
    ELSE IF StreamIsFailure(out.resp.status)
    THEN LET r == EnvelopeDecode(FaultType, ZeroDest, Reader(out.resp))
         IN  IF r.err # Nil THEN CallResult(r.err, ZeroDest, 1, "fault")
             ELSE CallResult(WrapFault(r.dest), ZeroDest, 1, "fault")
    ELSE LET r == EnvelopeDecode(RespType("stream", o), ZeroDest, Reader(out.resp))
         IN  CallResult(r.err, r.dest, 1, "dest")

\* (mutant) the error of the Fault's xml.Unmarshal is not looked at
CallBytesIgnoresFaultErr(o, out) ==
    IF out.err # Nil THEN CallResult(out.err, ZeroDest, 0, "none")
    ELSE IF GzipFails(out.resp) THEN CallResult(GzipErr, ZeroDest, 0, "none")
    ELSE LET p == EnvelopeResponseDecode(Reader(out.resp))
         IN  IF p.err # Nil THEN CallResult(p.err, ZeroDest, 1, "none")
             ELSE IF BytesIsFailure(out.resp.status)
             THEN CallResult(FaultErr(Unmarshal(FaultType, ZeroDest, p.content).dest),
                             ZeroDest, 2, "fault")
             ELSE LET r == Unmarshal(RespType("bytes", o), ZeroDest, p.content)
                  IN  CallResult(r.err, r.dest, 2, "dest")

\* Client.call of src/client.go from the return of httpClient.Do on
CallBytes(o, out) ==
    IF out.err # Nil THEN CallResult(out.err, ZeroDest, 0, "none")
    ELSE IF GzipFails(out.resp) THEN CallResult(GzipErr, ZeroDest, 0, "none")
    ELSE LET p == EnvelopeResponseDecode(Reader(out.resp))
         IN  IF p.err # Nil THEN CallResult(p.err, ZeroDest, 1, "none")
             ELSE IF BytesIsFailure(out.resp.status)
             THEN LET r == Unmarshal(FaultType, ZeroDest, p.content)
                  IN  IF r.err # Nil THEN CallResult(r.err, ZeroDest, 2, "fault")
                      ELSE CallResult(FaultErr(r.dest), ZeroDest, 2, "fault")
             ELSE LET r == Unmarshal(RespType("bytes", o), ZeroDest, p.content)
                  IN  CallResult(r.err, r.dest, 2, "dest")

\* Client.call of src/unnamed/part_001 from the return of httpClient.Do on:
\* any status but 200 is an error made of the status text, the body unread;
\* the Transport's own gzip reader fails at the first read of the decoder
CallLegacy(o, out) ==
    IF out.err # Nil THEN CallResult(out.err, ZeroDest, 0, "none")
    ELSE IF out.resp.status # StatusOK
    THEN CallResult(StatusErr(out.resp.status), ZeroDest, 0, "none")
    ELSE IF GzipFails(out.resp) THEN CallResult(GzipErr, ZeroDest, 1, "none")
    ELSE LET p == EnvelopeResponseDecode(Reader(out.resp))
         IN  IF p.err # Nil THEN CallResult(p.err, ZeroDest, 1, "none")
             ELSE LET r == Unmarshal(RespType("legacy", o), ZeroDest, p.content)
                  IN  CallResult(r.err, r.dest, 2, "dest")

CallAfterDo(v, o, out) ==
    CASE v = "stream" -> CallStream(o, out)
      [] v = "bytes"  -> CallBytes(o, out)
      [] OTHER        -> CallLegacy(o, out)

---------------------------------------------------------------------------
(* The operation facade *)

\* a facade's first return value: the bool, or the pointer into resp
Result(flag, ptr, payload) == [flag |-> flag, ptr |-> ptr, payload |-> payload]

NoResult == Result(FALSE, "", "")

\* false, or nil
ZeroResult(o) == Result(FALSE, IF IsBoolOp(o) THEN "n/a" ELSE "nil", "")

\* resp.XxxResult, or &resp.Xxx
Project(o, d) ==
    IF IsBoolOp(o) THEN Result(d.flag, "n/a", "") ELSE Result(FALSE, "&resp", d.payload)

\* (mutant) LogOff returns without CloseIdleConnections
FacadeStreamKeepsPool(o, c) ==
    IF c.err # Nil
    THEN [result |-> ZeroResult(o), err |-> Wrap(o \o " operation: ", c.err), closed |-> FALSE]
    ELSE [result |-> Project(o, c.dest), err |-> Nil, closed |-> FALSE]

\* (mutant) the facade returns what the destination holds even after an error
FacadeStreamKeepsResult(o, c) ==
    IF c.err # Nil
    THEN [result |-> Project(o, c.dest), err |-> Wrap(o \o " operation: ", c.err),
          closed |-> FALSE]
    ELSE [result |-> Project(o, c.dest), err |-> Nil, closed |-> (o = "logOff")]

\* what a facade method returns once call has returned c, and whether it
\* ran CloseIdleConnections on the way (LogOff, after a nil error only)
FacadeStream(o, c) ==
    IF c.err # Nil
    THEN [result |-> ZeroResult(o), err |-> Wrap(o \o " operation: ", c.err), closed |-> FALSE]
    ELSE [result |-> Project(o, c.dest), err |-> Nil, closed |-> (o = "logOff")]

FacadeBytes(o, c) ==
    IF c.err # Nil
    THEN [result |-> ZeroResult(o), err |-> c.err, closed |-> FALSE]
    ELSE [result |-> Project(o, c.dest), err |-> Nil, closed |-> (o = "logOff")]

\* the facade of src/unnamed/part_001: LogOff closes nothing
FacadeLegacy(o, c) ==
    IF c.err # Nil
    THEN [result |-> ZeroResult(o), err |-> c.err, closed |-> FALSE]
    ELSE [result |-> Project(o, c.dest), err |-> Nil, closed |-> FALSE]

Facade(v, o, c) ==
    CASE v = "stream" -> FacadeStream(o, c)
      [] v = "bytes"  -> FacadeBytes(o, c)
      [] OTHER        -> FacadeLegacy(o, c)

---------------------------------------------------------------------------
(* The environment: what the service may answer *)

OtherNS == "urn:example:extension"

Statuses == {200, 201, 204, 404, 500}

FaultStrings == {"Invalid credentials", "Session expired"}

\* (namespace of the element, namespace of its child)
NsPairs == {<<DaisyNS, DaisyNS>>, <<DaisyNS, "">>, <<"", "">>, <<OtherNS, OtherNS>>}

\* (name of the child, its text); <<"", "">> is an element without a child
Kids(o) ==
    {<<"", "">>}
    \cup {<<ResultField(o), t>> : t \in {"true", "1", "false", "maybe"}}
    \cup {<<"faultstring", m>> : m \in FaultStrings}

FirstElements(o) ==
    {Element(n, p[1], k[1], p[2], k[2]) :
        n \in {ResponseName(o), "Fault", "extension"}, p \in NsPairs, k \in Kids(o)}

GoodResponse(o) == Element(ResponseName(o), DaisyNS, ResultField(o), DaisyNS, "true")

GoodFault == Element("Fault", SoapNS, "faultstring", "", "Invalid credentials")

Siblings(o) ==
    {GoodFault,
     Element(ResponseName(o), DaisyNS, ResultField(o), DaisyNS, "false"),
     Element("extension", OtherNS, "", OtherNS, "")}

SiblingSeqs(o) == UNION {[1..n -> Siblings(o)] : n \in 0..MaxSiblings}

Bodies(o) == {<<>>} \cup {<<f>> \o t : f \in FirstElements(o), t \in SiblingSeqs(o)}

SmallBodies(o) == {<<>>, <<GoodResponse(o)>>, <<GoodFault>>, <<GoodResponse(o), GoodFault>>}

BadFits(bad, b) ==
    CASE bad \in {"first", "firstLate"} -> Len(b) >= 1
      [] bad = "trailing"               -> Len(b) >= 2
      [] OTHER                          -> TRUE

SmallDocs(o) == {Document("Envelope", SoapNS, TRUE, b, "none") : b \in SmallBodies(o)}

Docs(o) ==
    {Document("Envelope", SoapNS, TRUE, b, "none") : b \in Bodies(o)}
    \cup {Document("Envelope", SoapNS, FALSE, <<>>, "none")}
    \cup {Document(r[1], r[2], TRUE, b, "none") :
            r \in {<<"Envelope", "">>, <<"html", "">>}, b \in SmallBodies(o)}
    \cup {d \in {Document("Envelope", SoapNS, TRUE, b, bad) :
                    b \in SmallBodies(o), bad \in BadPositions \ {"none"}} :
            BadFits(d.bad, d.body)}

\* (Content-Encoding, coding of the body, damage of the gzip stream): a
\* plain body; a declared gzip body, sound or damaged in its header, its
\* compressed data or its trailer; a plain body declared gzip; a gzip body
\* not declared
Transfers ==
    {<<"", "identity", "none">>,
     <<"gzip", "gzip", "none">>, <<"gzip", "gzip", "header">>,
     <<"gzip", "gzip", "data">>, <<"gzip", "gzip", "trailer">>,
     <<"gzip", "identity", "none">>,
     <<"", "gzip", "none">>}

\* Set-Cookie of the response: none, a session cookie, an expired one
CookieActs == {"none", "sid", "expire"}

Responses(o) ==
    {Response(st, "", "identity", "none", "none", d) : st \in Statuses, d \in Docs(o)}
    \cup {Response(st, t[1], t[2], t[3], ck, d) :
            st \in Statuses, t \in Transfers, ck \in CookieActs, d \in SmallDocs(o)}

\* the responses of the model, by operation
ResponsesOf == [o \in AllOps |-> Responses(o)]

\* the cookie jar after the response's Set-Cookie
SetCookies(j, ck) ==
    CASE ck \in {"sid", "peer-sid"} -> j \cup {ck}
      [] ck = "expire"              -> {}
      [] OTHER                      -> j

---------------------------------------------------------------------------
(* The state machine *)

\* no value is being encoded
NoCodec == [phase |-> "none"]

\* the second Client as NewClient leaves it: an empty jar, nothing sent
NoPeer == [jar |-> {}, sent |-> {}]

\* body.UnmarshalXML is not running
NoScan == [phase |-> "none"]

\* Authentication is not running
NoAuth == [at |-> "none"]

\* no second call is running on the Client
NoRacer == [pc |-> "none"]

\* the url given to NewClient: any string, one that parses and one that
\* does not
Urls == {"http://service.example/daisy", ":bad url"}

\* Client.url parses (http.NewRequest accepts it)
urlOK == url = "http://service.example/daisy"

\* the timeout given to NewClient; zero means no timeout
Timeouts == {"0s", "30s"}

Init ==
    /\ variant \in Variants
    /\ url \in Urls
    /\ timeout \in Timeouts
    /\ ctx \in (IF variant = "stream" THEN {"todo", "live", "nil"} ELSE {"none"})
    /\ jar = {}
    /\ pc = "idle"
    /\ op = ""
    /\ req = NoReq
    /\ posts = 0
    /\ doOut = NoDo
    /\ decodes = 0
    /\ decodedAs = "none"
    /\ dest = ZeroDest
    /\ callErr = Nil
    /\ result = NoResult
    /\ err = Nil
    /\ idleClosed = FALSE
    /\ codec = NoCodec
    /\ session = "fresh"
    /\ peer = NoPeer
    /\ scan = NoScan
    /\ auth = NoAuth
    /\ racer = NoRacer

\* the request of each revision
NewRequestOf(v, o, cookies) ==
    IF v = "legacy" THEN NewRequestLegacy(o, cookies) ELSE NewRequest(o, cookies)

\* enc.Encode(reqEnv): the request structs hold strings, integers and
\* pointers to structs of these only, which encoding/xml always encodes
RequestEncodes(o) == o \in AllOps

\* (mutant) the error of http.NewRequest is not looked at
RequestBuildsUnchecked == TRUE

\* (mutant) the request is built only while the caller is logged on
RequestBuildsWhenLoggedOn == urlOK /\ ctx # "nil" /\ session = "on"

\* http.NewRequest / NewRequestWithContext fails on a URL that does not
\* parse and on a nil context
RequestBuilds == urlOK /\ ctx # "nil"

\* (mutant) a call that ends clears the Client's timeout
ClientAfterCallNoTimeout == [url |-> url, timeout |-> "0s", ctx |-> ctx]

\* the Client's own fields when call returns: call and the facade assign
\* to none of them
ClientAfterCall == [url |-> url, timeout |-> timeout, ctx |-> ctx]

\* the caller's record of its invocations once o has returned
SessionAfter(o) ==
    CASE o = "logOn"  -> "on"
      [] o = "logOff" -> "off"
      [] OTHER        -> session

\* call returns c to the facade o, which returns to its caller
Finish(o, c) ==
    LET f == Facade(variant, o, c)
    IN  /\ pc' = "done"
        /\ url' = ClientAfterCall.url
        /\ timeout' = ClientAfterCall.timeout
        /\ ctx' = ClientAfterCall.ctx
        /\ session' = SessionAfter(o)
        /\ decodes' = c.decodes
        /\ decodedAs' = c.as
        /\ dest' = c.dest
        /\ callErr' = c.err
        /\ result' = f.result
        /\ err' = f.err
        /\ idleClosed' = f.closed

\* NewClient of any of the three revisions
InitAll ==
    /\ variant \in Revisions
    /\ url \in Urls
    /\ timeout \in (IF variant = "legacy" THEN {"0s"} ELSE Timeouts)
    /\ ctx \in (IF variant = "stream" THEN {"todo", "live", "nil"} ELSE {"none"})
    /\ jar = {}
    /\ pc = "idle"
    /\ op = ""
    /\ req = NoReq
    /\ posts = 0
    /\ doOut = NoDo
    /\ decodes = 0
    /\ decodedAs = "none"
    /\ dest = ZeroDest
    /\ callErr = Nil
    /\ result = NoResult
    /\ err = Nil
    /\ idleClosed = FALSE
    /\ codec = NoCodec
    /\ session = "fresh"
    /\ peer = NoPeer
    /\ scan = NoScan
    /\ auth = NoAuth
    /\ racer = NoRacer

\* A facade method is invoked and call reaches httpClient.Do.
InvokeSend(o) ==
    /\ pc = "idle"
    /\ o \in Ops(variant)
    /\ RequestEncodes(o)
    /\ RequestBuilds
    /\ pc' = "sent"
    /\ op' = o
    /\ req' = NewRequestOf(variant, o, jar)
    /\ posts' = posts + 1
    /\ UNCHANGED <<scan, auth, racer, codec, session, peer, variant, url, timeout, ctx, jar, doOut, decodes,
                   decodedAs, dest,
                   callErr, result, err, idleClosed>>

\* A facade method is invoked and call returns the error of NewRequest.
InvokeFail(o) ==
    /\ pc = "idle"
    /\ o \in Ops(variant)
    /\ RequestEncodes(o)
    /\ ~RequestBuilds
    /\ op' = o
    /\ Finish(o, CallResult(RequestErr(IF urlOK THEN "nil Context" ELSE "parse url"),
                            ZeroDest, 0, "none"))
    /\ UNCHANGED <<scan, auth, racer, codec, peer, variant, jar, req, posts, doOut>>

\* httpClient.Do returns a response; call decodes it and the facade returns.
Respond ==
    /\ pc = "sent"
    /\ ctx # "cancelled"
    /\ \E r \in ResponsesOf[op] :
          /\ doOut' = [err |-> Nil, resp |-> r]
          /\ jar' = SetCookies(jar, r.cookie)
          /\ Finish(op, CallAfterDo(variant, op, [err |-> Nil, resp |-> r]))
    /\ UNCHANGED <<scan, auth, racer, codec, peer, variant, op, req, posts>>

\* httpClient.Do returns an error of the network or of Client.Timeout.
TransportFail(cause) ==
    /\ pc = "sent"
    /\ (cause = "Client.Timeout exceeded" => timeout # "0s")
    /\ ctx # "cancelled"
    /\ doOut' = [err |-> TransportErr(cause), resp |-> NoResp]
    /\ Finish(op, CallAfterDo(variant, op, [err |-> TransportErr(cause), resp |-> NoResp]))
    /\ UNCHANGED <<scan, auth, racer, codec, peer, variant, jar, op, req, posts>>

\* httpClient.Do returns because the request's context is cancelled.
DoCancelled ==
    /\ pc = "sent"
    /\ ctx = "cancelled"
    /\ doOut' = [err |-> TransportErr("context canceled"), resp |-> NoResp]
    /\ Finish(op, CallAfterDo(variant, op,
                              [err |-> TransportErr("context canceled"), resp |-> NoResp]))
    /\ UNCHANGED <<scan, auth, racer, codec, peer, variant, jar, op, req, posts>>

\* The owner of the context given to NewClientWithContext cancels it (or
\* its deadline passes).
Cancel ==
    /\ ctx = "live"
    /\ ctx' = "cancelled"
    /\ UNCHANGED <<scan, auth, racer, codec, session, peer, variant, url, timeout, jar, pc, op, req, posts, doOut,
                   decodes,
                   decodedAs, dest, callErr, result, err, idleClosed>>

\* The caller has the facade's return values; the Client is free for the
\* next invocation.  Only the Client's own fields outlive the invocation.
Return ==
    /\ pc = "done"
    /\ pc' = "idle"
    /\ op' = ""
    /\ req' = NoReq
    /\ posts' = 0
    /\ doOut' = NoDo
    /\ decodes' = 0
    /\ decodedAs' = "none"
    /\ dest' = ZeroDest
    /\ callErr' = Nil
    /\ result' = NoResult
    /\ err' = Nil
    /\ idleClosed' = FALSE
    /\ UNCHANGED <<scan, auth, racer, codec, session, peer, variant, url, timeout, ctx, jar>>

Next ==
    \/ \E o \in AllOps : InvokeSend(o)
    \/ \E o \in AllOps : InvokeFail(o)
    \/ Respond
    \/ \E cause \in {"connection refused", "Client.Timeout exceeded"} : TransportFail(cause)
    \/ DoCancelled
    \/ Cancel
    \/ Return

Spec == Init /\ [][Next]_vars

\* the three revisions of the repository
SpecAll == InitAll /\ [][Next]_vars

---------------------------------------------------------------------------
(* What the claims speak about *)

\* the invocation is over and httpClient.Do had returned a response
GotResponse == pc = "done" /\ posts = 1 /\ doOut.err = Nil

\* the document call reads from the response's body
ReceivedDoc == Reader(doOut.resp)

\* the response's document, once gunzipped, is well-formed and its root is
\* an Envelope this revision's envelope struct accepts
EnvelopeAccepted ==
    /\ ~GzipFails(doOut.resp)
    /\ ReceivedDoc.bad = "none"
    /\ ReceivedDoc.root = "Envelope"
    /\ (variant = "stream" => ReceivedDoc.rootNs = SoapNS)

\* the Body holds an element
HasFirst == ReceivedDoc.hasBody /\ ReceivedDoc.body # <<>>

FirstElement == Head(ReceivedDoc.body)

\* the string the service put in the Fault's faultstring
RemoteFaultstring == IF FirstElement.kid = "faultstring" THEN FirstElement.text ELSE ""

---------------------------------------------------------------------------
(* C1: a response with status 200 never yields a Fault: neither the error  *)
(* of call nor the facade's error holds a Fault, the body is decoded       *)
(* against the caller's destination only, and a first element named Fault  *)
(* is a decode error of that destination.                                  *)
C1_Status200NeverFault ==
    (GotResponse /\ doOut.resp.status = StatusOK) =>
        /\ ~IsFault(callErr)
        /\ ~IsFault(err)
        /\ decodedAs # "fault"
        /\ (EnvelopeAccepted /\ HasFirst /\ FirstElement.name = "Fault"
                => IsDecode(callErr) /\ dest = ZeroDest)

C1_Witness ==
    /\ GotResponse
    /\ doOut.resp.status = StatusOK
    /\ EnvelopeAccepted
    /\ HasFirst
    /\ FirstElement.name = "Fault"
    /\ FirstElement.kid = "faultstring"
    /\ decodedAs = "dest"
    /\ IsDecode(err)

---------------------------------------------------------------------------
(* C2 as stated: a response with a status other than 200 gives a non-nil   *)
(* error, the Fault when the body's first element is a Fault and a decode  *)
(* error otherwise, an empty body included.                                *)
C2_Original ==
    (GotResponse /\ doOut.resp.status # StatusOK) =>
        /\ callErr # Nil
        /\ IF EnvelopeAccepted /\ HasFirst /\ FirstElement.name = "Fault"
           THEN IsFault(callErr)
           ELSE IsDecode(callErr)

(* C2 amended: a response with a status other than 200 gives a non-nil     *)
(* error: the Fault with the remote faultstring when the first element is  *)
(* a Fault, a decode error when the document is malformed or its first     *)
(* element is not a Fault; when the Body holds no element the revision     *)
(* "bytes" returns a decode error (io.EOF) and the revision "stream" a     *)
(* Fault with an empty Faultstring.                                        *)
C2_Non200AlwaysError ==
    (GotResponse /\ doOut.resp.status # StatusOK) =>
        /\ callErr # Nil
        /\ IF EnvelopeAccepted /\ HasFirst /\ FirstElement.name = "Fault"
           THEN IsFault(callErr) /\ Innermost(callErr).faultstring = RemoteFaultstring
           ELSE IF EnvelopeAccepted /\ ~HasFirst /\ variant = "stream"
           THEN IsFault(callErr) /\ Innermost(callErr).faultstring = ""
           ELSE IsDecode(callErr)

C2_Witness ==
    /\ GotResponse
    /\ doOut.resp.status # StatusOK
    /\ EnvelopeAccepted
    /\ ReceivedDoc.hasBody
    /\ ~HasFirst
    /\ variant = "stream"
    /\ IsFault(callErr)

---------------------------------------------------------------------------
(* C3 as stated: the body is decoded as a Fault exactly when the status is *)
(* outside 200..299.                                                       *)
C3_Original ==
    (GotResponse /\ decodedAs # "none") =>
        (decodedAs = "fault" <=> (doOut.resp.status < 200 \/ doOut.resp.status > 299))

(* C3 amended: the body is decoded as a Fault exactly when the status is   *)
(* not 200, and into the caller's destination exactly when it is 200; an   *)
(* accepted envelope is always decoded as one of the two.                  *)
C3_FailureIffNot200 ==
    GotResponse =>
        /\ (decodedAs = "fault" => doOut.resp.status # StatusOK)
        /\ (decodedAs = "dest" => doOut.resp.status = StatusOK)
        /\ (EnvelopeAccepted => decodedAs # "none")

C3_Witness ==
    /\ GotResponse
    /\ doOut.resp.status = 204
    /\ EnvelopeAccepted
    /\ HasFirst
    /\ FirstElement = GoodResponse(op)
    /\ decodedAs = "fault"
    /\ callErr # Nil

---------------------------------------------------------------------------
(* C4: with a well-formed document, what call leaves in the destination    *)
(* and the error it returns are those of the same response with the first  *)
(* element of Body alone: the trailing siblings change neither.            *)
FirstAlone ==
    [doOut EXCEPT !.resp.doc.body = <<Head(doOut.resp.doc.body)>>]

C4_FirstElementWins ==
    (GotResponse /\ ReceivedDoc.bad = "none" /\ HasFirst) =>
        /\ dest = CallAfterDo(variant, op, FirstAlone).dest
        /\ callErr = CallAfterDo(variant, op, FirstAlone).err

C4_Witness ==
    /\ GotResponse
    /\ doOut.resp.status = StatusOK
    /\ EnvelopeAccepted
    /\ HasFirst
    /\ Len(ReceivedDoc.body) > 1
    /\ FirstElement = GoodResponse(op)
    /\ ReceivedDoc.body[2].name # FirstElement.name
    /\ callErr = Nil
    /\ dest.xmlname = ResponseName(op)

---------------------------------------------------------------------------
(* C5: a status-200 response whose Body holds no element gives a nil error *)
(* from call, an untouched destination, and a zero-valued result with a    *)
(* nil error from the facade.                                              *)
C5_EmptyBodyIsSuccess ==
    (/\ GotResponse
     /\ doOut.resp.status = StatusOK
     /\ EnvelopeAccepted
     /\ ReceivedDoc.hasBody
     /\ ReceivedDoc.body = <<>>) =>
        /\ callErr = Nil
        /\ dest = ZeroDest
        /\ err = Nil
        /\ result.flag = FALSE
        /\ result.payload = ""

---------------------------------------------------------------------------
(* the service answered a non-200 status with a Fault carrying faultstring *)
FaultResponse ==
    /\ GotResponse
    /\ doOut.resp.status # StatusOK
    /\ EnvelopeAccepted
    /\ HasFirst
    /\ FirstElement.name = "Fault"
    /\ FirstElement.kid = "faultstring"

(* C6 as stated: on a non-200 response with a Fault of faultstring m the   *)
(* facade returns the zero result and an error whose Error() is exactly m. *)
C6_Original ==
    FaultResponse =>
        /\ result = ZeroResult(op)
        /\ err # Nil
        /\ ErrorString(err) = FirstElement.text

(* C6 amended: on a non-200 response with a Fault of faultstring m the     *)
(* facade returns the zero result and an error holding a Fault whose       *)
(* Error() is exactly m; the error's own message is m in the revision      *)
(* "bytes" and "<op> operation: fault: " followed by m in the revision     *)
(* "stream".                                                               *)
C6_FaultMessage ==
    FaultResponse =>
        /\ result = ZeroResult(op)
        /\ err # Nil
        /\ IsFault(err)
        /\ ErrorString(Innermost(err)) = FirstElement.text
        /\ ErrorString(err) = IF variant = "stream"
                              THEN op \o " operation: fault: " \o FirstElement.text
                              ELSE FirstElement.text

C6_Witness ==
    /\ FaultResponse
    /\ variant = "stream"
    /\ op = "logOn"
    /\ doOut.resp.status = 500
    /\ ErrorString(err) = "logOn operation: fault: Invalid credentials"
    /\ result = ZeroResult(op)

---------------------------------------------------------------------------
(* C7 as stated: the facade's error holds a Fault exactly when the status  *)
(* was not 200 and a Fault element was decoded; its Faultstring is the     *)
(* remote string.                                                          *)
C7_Original ==
    pc = "done" =>
        /\ IsFault(err) <=> (/\ GotResponse
                             /\ doOut.resp.status # StatusOK
                             /\ EnvelopeAccepted
                             /\ HasFirst
                             /\ FirstElement.name = "Fault")
        /\ (IsFault(err) /\ HasFirst => Innermost(err).faultstring = RemoteFaultstring)

(* C7 amended: the facade's error holds a Fault exactly when the status    *)
(* was not 200 and the envelope decoded without error, which is when the   *)
(* first element of Body is a Fault and, in the revision "stream" only,    *)
(* also when Body holds no element; the Faultstring is the remote string   *)
(* in the first case and empty in the second.  Errors of httpClient.Do and *)
(* decode errors never hold a Fault.                                       *)
C7_FaultIdentity ==
    pc = "done" =>
        /\ IsFault(err) <=> (/\ GotResponse
                             /\ doOut.resp.status # StatusOK
                             /\ EnvelopeAccepted
                             /\ \/ (HasFirst /\ FirstElement.name = "Fault")
                                \/ (~HasFirst /\ variant = "stream"))
        /\ (IsFault(err) =>
                Innermost(err).faultstring = IF HasFirst THEN RemoteFaultstring ELSE "")
        /\ (IsTransport(callErr) \/ IsDecode(callErr) => ~IsFault(err))
        /\ (~IsFault(err) /\ err # Nil =>
                Innermost(err).kind \in {"transport", "decode", "gzip", "request"})

C7_Witness ==
    /\ FaultResponse
    /\ variant = "stream"
    /\ err.kind = "wrap"
    /\ err.inner.kind = "wrap"
    /\ err.inner.inner.kind = "fault"
    /\ err.inner.inner.faultstring = "Session expired"

---------------------------------------------------------------------------
(* C8: for a bool-result operation, a status-200 response whose first      *)
(* element is <opResponse> written without any namespace, carrying result  *)
(* flag b, makes the facade return (b, nil).                               *)
C8_PlainBoolResponse ==
    (/\ GotResponse
     /\ doOut.resp.status = StatusOK
     /\ EnvelopeAccepted
     /\ HasFirst
     /\ IsBoolOp(op)
     /\ FirstElement.name = ResponseName(op)
     /\ FirstElement.ns = ""
     /\ FirstElement.kid = ResultField(op)
     /\ FirstElement.kns = ""
     /\ FirstElement.text \in {"true", "false"}) =>
        /\ err = Nil
        /\ result = Result(FirstElement.text = "true", "n/a", "")

---------------------------------------------------------------------------
(* C9 as stated: an invocation calls httpClient.Do at most once, exactly   *)
(* once when the request encodes; a transport failure is returned before   *)
(* any decoding.                                                           *)
C9_Original ==
    /\ posts <= 1
    /\ (pc = "done" /\ RequestEncodes(op) => posts = 1)
    /\ (pc = "done" /\ doOut.err # Nil => callErr = doOut.err /\ decodes = 0)

(* C9 amended: an invocation calls httpClient.Do at most once: exactly     *)
(* once when the request encodes and http.NewRequest builds it (the URL    *)
(* parses, the context is not nil), never otherwise; whatever the outcome  *)
(* there is no second call, and an error of httpClient.Do is returned      *)
(* before any decoding.                                                    *)
C9_AtMostOnePost ==
    /\ posts <= 1
    /\ (pc = "sent" => posts = 1)
    /\ (pc = "done" => (posts = 1 <=> (RequestEncodes(op) /\ urlOK /\ ctx # "nil")))
    /\ (pc = "done" /\ doOut.err # Nil =>
            /\ callErr = doOut.err
            /\ decodes = 0
            /\ decodedAs = "none"
            /\ dest = ZeroDest)

C9_Witness ==
    /\ pc = "done"
    /\ posts = 1
    /\ doOut.err = TransportErr("connection refused")
    /\ callErr = doOut.err
    /\ decodes = 0

---------------------------------------------------------------------------
(* C10: when the Client's context is cancelled while the call is inside    *)
(* httpClient.Do, the call returns the transport error, decodes nothing    *)
(* and leaves the destination as it was; the facade returns the zero       *)
(* result with that error.                                                 *)
C10_CancelledBeforeExchange ==
    [][(pc = "sent" /\ ctx = "cancelled" /\ pc' = "done") =>
            /\ IsTransport(callErr')
            /\ decodes' = 0
            /\ decodedAs' = "none"
            /\ dest' = ZeroDest
            /\ IsTransport(err')
            /\ result' = ZeroResult(op)]_vars

C10_Witness ==
    /\ pc = "done"
    /\ variant = "stream"
    /\ ctx = "cancelled"
    /\ doOut.err = TransportErr("context canceled")
    /\ IsTransport(err)
    /\ decodes = 0

---------------------------------------------------------------------------
\* the same exchange with the body sent plain, without Content-Encoding
PlainTwin ==
    [doOut EXCEPT !.resp.encoding = "", !.resp.coding = "identity", !.resp.damage = "none"]

\* the response declares gzip and its body is a sound gzip stream
SoundGzip ==
    /\ doOut.resp.encoding = "gzip"
    /\ doOut.resp.coding = "gzip"
    /\ doOut.resp.damage = "none"

(* C11: a response declaring Content-Encoding gzip is gunzipped before the *)
(* envelope is parsed and before its status is looked at: whatever the     *)
(* status, a sound gzip body gives what the same response sent plain       *)
(* gives (the Fault at a non-200 status, the destination at 200), and a    *)
(* gzip reader that cannot be built ends the call before any decoding and  *)
(* before any Fault is looked for.  A response that does not declare gzip  *)
(* is parsed as received: a gzip body without the header is a decode       *)
(* error.                                                                  *)
C11_GunzipBeforeParse ==
    GotResponse =>
        /\ SoundGzip =>
              /\ callErr = CallAfterDo(variant, op, PlainTwin).err
              /\ dest = CallAfterDo(variant, op, PlainTwin).dest
              /\ decodedAs = (IF doOut.resp.status = StatusOK THEN "dest" ELSE "fault")
              /\ (doOut.resp.status # StatusOK /\ doOut.resp.doc.body = <<GoodFault>>
                    => IsFault(callErr)
                       /\ Innermost(callErr).faultstring = "Invalid credentials")
        /\ GzipFails(doOut.resp) =>
              /\ callErr = GzipErr
              /\ decodes = 0
              /\ decodedAs = "none"
              /\ dest = ZeroDest
        /\ (doOut.resp.encoding # "gzip" /\ doOut.resp.coding = "gzip") =>
              /\ IsDecode(callErr)
              /\ dest = ZeroDest
        /\ (doOut.resp.encoding # "gzip" /\ doOut.resp.coding = "identity") =>
              /\ callErr = CallAfterDo(variant, op, PlainTwin).err
              /\ dest = CallAfterDo(variant, op, PlainTwin).dest

C11_Witness ==
    /\ GotResponse
    /\ SoundGzip
    /\ doOut.resp.status = 500
    /\ doOut.resp.doc.body = <<GoodFault>>
    /\ IsFault(callErr)
    /\ decodes >= 1

---------------------------------------------------------------------------
(* C12: a response declaring Content-Encoding gzip whose gzip stream is    *)
(* damaged, in its header, in its compressed data or in its trailing       *)
(* checksum, makes call return a non-nil error and the facade a non-nil    *)
(* error.                                                                  *)
C12_CorruptGzipIsError ==
    (/\ GotResponse
     /\ doOut.resp.encoding = "gzip"
     /\ doOut.resp.coding = "gzip"
     /\ doOut.resp.damage # "none") =>
        /\ callErr # Nil
        /\ err # Nil

---------------------------------------------------------------------------
\* call has handed a request to httpClient.Do
RequestOut == pc \in {"sent", "done"} /\ posts = 1

\* the parts of the request that are the same in every revision
FixedRequestParts ==
    /\ req.method = "POST"
    /\ req.url = url
    /\ HeaderCount(req, "Content-Type") = 1
    /\ HeaderValues(req, "Content-Type") = {"text/xml; charset=utf-8"}
    /\ HeaderCount(req, "Accept") = 1
    /\ HeaderValues(req, "Accept") = {"text/xml"}
    /\ HeaderCount(req, "SOAPAction") = 1
    /\ HeaderValues(req, "SOAPAction") = {"/" \o op}
    /\ req.body = op

---------------------------------------------------------------------------
(* Encoding a value and decoding it again (revision "stream") *)

\* the field of an operation's request struct that the model follows: its
\* struct-valued field where it has one, its first field otherwise ("" when
\* the struct has only XMLName)
RequestField(o) ==
    CASE o = "logOn"                      -> "username"
      [] o = "getContentList"             -> "id"
      [] o = "setReadingSystemAttributes" -> "readingSystemAttributes"
      [] o = "getQuestions"               -> "userResponses"
      [] o = "setBookmarks"               -> "bookmarkSet"
      [] o = "markAnnouncementsAsRead"    -> "read"
      [] o \in {"getContentMetadata", "getContentResources", "issueContent",
                "returnContent", "getBookmarks"} -> "contentID"
      [] OTHER                            -> ""

\* the request struct of an operation: its XMLName, that field, and the
\* namespace of the XMLName of the field's own struct type
ReqType(o) ==
    [name |-> o,
     ns |-> DaisyNS,
     field |-> RequestField(o),
     isBool |-> FALSE,
     nestedNS |-> IF o = "setBookmarks" THEN BookmarkNS ELSE ""]

\* the shapes: every request and every response struct
Shapes ==
    {ReqType(o) : o \in Ops("stream")} \cup {RespType("stream", o) : o \in Ops("stream")}

\* the texts a string field (or the content of a nested struct) may hold:
\* empty, plain, with markup characters, with a character outside the XML
\* character range
Texts == {"", "u", "a<b&c", "a[U+0001]b"}

\* the values of a shape, as the facade builds them (XMLName left zero)
Values(T) ==
    IF T.field = "" THEN {ZeroDest}
    ELSE IF T.isBool THEN {[ZeroDest EXCEPT !.flag = b] : b \in BOOLEAN}
    ELSE {[ZeroDest EXCEPT !.payload = t] : t \in Texts}

\* xml.EscapeText: markup characters become entities, a character outside
\* the XML character range becomes U+FFFD
EscapeText(t) ==
    CASE t = "a<b&c"      -> "a&lt;b&amp;c"
      [] t = "a[U+0001]b" -> "a[U+FFFD]b"
      [] OTHER            -> t

\* the decoder's reading of character data: entities become characters
UnescapeText(x) ==
    CASE x = "a&lt;b&amp;c" -> "a<b&c"
      [] OTHER              -> x

\* strconv.FormatBool
FormatBool(b) == IF b THEN "true" ELSE "false"

\* The element the encoder writes for a value: the struct's XMLName with its
\* xmlns, and the field's element, named by the XMLName of the field's own
\* type when that type has one with a namespace, by the field's tag and the
\* enclosing namespace otherwise.
MarshalElement(T, v) ==
    Element(T.name, T.ns,
            T.field,
            IF T.field = "" THEN "" ELSE IF T.nestedNS # "" THEN T.nestedNS ELSE T.ns,
            IF T.field = "" THEN ""
            ELSE EscapeText(IF T.isBool THEN FormatBool(v.flag) ELSE v.payload))

\* enc.Encode(reqEnv) with reqEnv.Body.Content = v: the bytes written
Encode(T, v) == Document("Envelope", SoapNS, TRUE, <<MarshalElement(T, v)>>, "none")

\* the tokens the decoder makes of the bytes
Tokens(doc) ==
    [doc EXCEPT !.body = [i \in DOMAIN doc.body |->
                            [doc.body[i] EXCEPT !.text = UnescapeText(doc.body[i].text)]]]

\* a value of a shape is chosen
InitCodec ==
    /\ variant = "stream"
    /\ url = "http://service.example/daisy"
    /\ timeout = "0s"
    /\ ctx = "todo"
    /\ jar = {}
    /\ pc = "idle"
    /\ op = ""
    /\ req = NoReq
    /\ posts = 0
    /\ doOut = NoDo
    /\ decodes = 0
    /\ decodedAs = "none"
    /\ dest = ZeroDest
    /\ callErr = Nil
    /\ result = NoResult
    /\ err = Nil
    /\ idleClosed = FALSE
    /\ session = "fresh"
    /\ peer = NoPeer
    /\ scan = NoScan
    /\ auth = NoAuth
    /\ racer = NoRacer
    /\ \E T \in Shapes : \E v \in Values(T) :
          codec = [phase |-> "value", shape |-> T, value |-> v]

\* the value is encoded inside an envelope, as call encodes its args
EncodeValue ==
    /\ codec.phase = "value"
    /\ codec' = [phase |-> "encoded", shape |-> codec.shape, value |-> codec.value,
                 doc |-> Encode(codec.shape, codec.value)]
    /\ UNCHANGED <<variant, url, timeout, ctx, jar, pc, op, req, posts, doOut, decodes,
                   decodedAs, dest, callErr, result, err, idleClosed, session, peer,
                   scan, auth, racer>>

\* the document is decoded with the body extractor into a fresh value
DecodeValue ==
    /\ codec.phase = "encoded"
    /\ codec' = [phase |-> "decoded", shape |-> codec.shape, value |-> codec.value,
                 doc |-> codec.doc,
                 back |-> EnvelopeDecode(codec.shape, ZeroDest, Tokens(codec.doc))]
    /\ UNCHANGED <<variant, url, timeout, ctx, jar, pc, op, req, posts, doOut, decodes,
                   decodedAs, dest, callErr, result, err, idleClosed, session, peer,
                   scan, auth, racer>>

NextCodec == EncodeValue \/ DecodeValue

SpecCodec == InitCodec /\ [][NextCodec]_vars

\* two values of a shape hold the same content (XMLName, which only the
\* decoder fills, left aside)
SameContent(a, b) == a.flag = b.flag /\ a.payload = b.payload

(* C14: for every request and response shape and every value v of it,      *)
(* encoding v inside an envelope as call does and decoding the document    *)
(* with the body extractor into a fresh value of the shape gives no error  *)
(* and a value with the content of v.                                      *)
C14_RoundTrip ==
    codec.phase = "decoded" =>
        /\ codec.back.err = Nil
        /\ SameContent(codec.back.dest, codec.value)

---------------------------------------------------------------------------
(* C15: a facade returns one of two shapes.  When call returned an error:  *)
(* a non-nil error and the zero result (false, or a nil pointer), whatever *)
(* the destination holds by then.  When call returned nil: a nil error and *)
(* the result taken from the destination, which for the pointer-returning  *)
(* operations is the address of a field of the destination, never nil.     *)
C15_TwoShapes ==
    pc = "done" =>
        /\ (callErr # Nil =>
                /\ err # Nil
                /\ result = ZeroResult(op))
        /\ (callErr = Nil =>
                /\ err = Nil
                /\ result = Project(op, dest)
                /\ (~IsBoolOp(op) => result.ptr = "&resp"))

\* a pointer-returning operation fails after the destination has been filled
C15_Witness ==
    /\ pc = "done"
    /\ op = "getServiceAttributes"
    /\ callErr # Nil
    /\ dest.payload # ""
    /\ err # Nil
    /\ result = ZeroResult(op)
    /\ result.ptr = "nil"

---------------------------------------------------------------------------
(* C16 as stated: every invocation, whatever was invoked before, sends its *)
(* request.                                                                *)
C16_Original ==
    [][(pc = "idle" /\ pc' # "idle") => (pc' = "sent" /\ posts' = 1)]_vars

(* C16 amended: whether an invocation hands its request to the HTTP client *)
(* depends on the Client's URL and context only, never on what was invoked *)
(* before: on a Client whose URL parses and whose context is not nil every *)
(* operation can be invoked in every state and is handed over, the request *)
(* being the one of its operation with the jar's cookies; on any other     *)
(* Client every invocation returns the error of http.NewRequest and sends  *)
(* nothing.                                                                *)
C16_NoOrdering ==
    [][/\ (pc = "idle" /\ urlOK /\ ctx # "nil") =>
              \A o \in Ops(variant) : ENABLED InvokeSend(o)
       /\ (pc = "idle" /\ pc' # "idle") =>
              IF urlOK /\ ctx # "nil"
              THEN /\ pc' = "sent"
                   /\ posts' = 1
                   /\ req' = NewRequestOf(variant, op', jar)
              ELSE /\ pc' = "done"
                   /\ posts' = 0
                   /\ callErr'.kind = "request"]_vars

\* a content operation is sent after LogOff
C16_Witness ==
    /\ pc = "sent"
    /\ session = "off"
    /\ op = "issueContent"
    /\ posts = 1
    /\ req = NewRequestOf(variant, "issueContent", jar)

---------------------------------------------------------------------------
(* C17: every LogOff invocation has run CloseIdleConnections by the time   *)
(* it returns, whatever the logOff exchange gave (true, false, a Fault, a  *)
(* decode error, a transport error).                                       *)
C17_LogOffReleasesIdle ==
    (pc = "done" /\ op = "logOff" /\ posts = 1) => idleClosed

---------------------------------------------------------------------------
(* Two Clients *)

\* what the service may do to the session cookie it gave the second Client
PeerCookieActs == {"none", "peer-sid", "expire"}

\* (mutant) both Clients use one jar
PeerJarShared == jar

\* the second Client's httpClient.Jar: the jar its own NewClient made
PeerJar == peer.jar

\* two Clients have been built; the first is one whose invocations can be
\* followed through every step
InitPair ==
    /\ variant \in Variants
    /\ url = "http://service.example/daisy"
    /\ timeout = "30s"
    /\ ctx \in (IF variant = "stream" THEN {"live", "nil"} ELSE {"none"})
    /\ jar = {}
    /\ pc = "idle"
    /\ op = ""
    /\ req = NoReq
    /\ posts = 0
    /\ doOut = NoDo
    /\ decodes = 0
    /\ decodedAs = "none"
    /\ dest = ZeroDest
    /\ callErr = Nil
    /\ result = NoResult
    /\ err = Nil
    /\ idleClosed = FALSE
    /\ codec = NoCodec
    /\ session = "fresh"
    /\ peer = NoPeer
    /\ scan = NoScan
    /\ auth = NoAuth
    /\ racer = NoRacer

\* The second Client makes a call: the request carries the cookies of its
\* jar, the response's Set-Cookie is stored in its jar.  The call is taken
\* before, during or after an invocation on the first Client (a step at
\* "done" is the same step taken after Return, which touches no Client).
PeerCall(ck) ==
    /\ pc # "done"
    /\ peer' = [jar |-> SetCookies(PeerJar, ck), sent |-> PeerJar]
    /\ UNCHANGED <<variant, url, timeout, ctx, jar, pc, op, req, posts, doOut, decodes,
                   decodedAs, dest, callErr, result, err, idleClosed, codec, session,
                   scan, auth, racer>>

NextPair ==
    \/ Next
    \/ \E ck \in PeerCookieActs : PeerCall(ck)

SpecPair == InitPair /\ [][NextPair]_vars

(* C18: a new Client has no cookies; the request of a call carries exactly *)
(* the cookies of the Client's jar; the jar changes only when a call of    *)
(* that Client receives a response, by that response's Set-Cookie; and a   *)
(* cookie the service gave to one Client is never in the jar or in a       *)
(* request of the other.                                                   *)
C18_CookiesPerClient ==
    /\ jar = {}
    /\ peer.jar = {}
    /\ [][/\ (pc = "idle" /\ pc' = "sent") => req'.cookies = jar
          /\ (pc = "sent" /\ pc' = "done" /\ doOut'.err = Nil) =>
                 jar' = SetCookies(jar, doOut'.resp.cookie)
          /\ ~(pc = "sent" /\ pc' = "done" /\ doOut'.err = Nil) => jar' = jar
          /\ peer' # peer => peer'.sent = peer.jar
          /\ "peer-sid" \notin (jar' \cup req'.cookies)
          /\ "sid" \notin (peer'.jar \cup peer'.sent)]_vars

\* each Client sends the cookie it was given
C18_Witness ==
    /\ pc = "sent"
    /\ req.cookies = {"sid"}
    /\ peer.sent = {"peer-sid"}
    /\ peer.jar = {"peer-sid"}

---------------------------------------------------------------------------
(* C19: no step of a call changes the Client's URL, timeout or context,    *)
(* whatever the outcome of the call; of the Client's state only the cookie *)
(* jar changes.  (The context's owner may cancel it: the Client then holds *)
(* the same context, cancelled.)                                           *)
C19_ClientFrame ==
    [][/\ url' = url
       /\ timeout' = timeout
       /\ variant' = variant
       /\ (pc' # pc => ctx' = ctx)
       /\ (ctx' # ctx => ctx = "live" /\ ctx' = "cancelled")]_vars

\* a call has ended with a cookie stored, on a Client with a timeout and a
\* context of its own
C19_Witness ==
    /\ pc = "done"
    /\ doOut.err = Nil
    /\ doOut.resp.cookie = "sid"
    /\ jar = {"sid"}
    /\ req.cookies = {}
    /\ url = "http://service.example/daisy"
    /\ timeout = "30s"
    /\ ctx = "live"

---------------------------------------------------------------------------
(* C20: a status-200 response whose first body element has the local name  *)
(* of the operation's response but another namespace than the DAISY Online *)
(* one, or none, is accepted: the element is decoded into the destination  *)
(* and its namespace is no error of the call.                              *)
C20_ForeignNamespaceAccepted ==
    (/\ GotResponse
     /\ doOut.resp.status = StatusOK
     /\ EnvelopeAccepted
     /\ HasFirst
     /\ FirstElement.name = ResponseName(op)
     /\ FirstElement.ns # DaisyNS) =>
        /\ decodedAs = "dest"
        /\ dest.xmlname = ResponseName(op)
        /\ (Innermost(callErr).kind = "decode" =>
                Innermost(callErr).why # "expected element <" \o ResponseName(op) \o "> in name space")

---------------------------------------------------------------------------
(* body.UnmarshalXML, token by token (revision "stream") *)

\* The tokens that follow <Body> in the decoder's input: a start and an end
\* token for each element of the Body, then the end of Body, then the end
\* of Envelope, then the end of the input.
BodyEnd(b) == 2 * Len(b) + 1

TokenKind(b, k) ==
    CASE k <= 2 * Len(b) /\ k % 2 = 1 -> "start"
      [] k <= 2 * Len(b) /\ k % 2 = 0 -> "end"
      [] k = BodyEnd(b)               -> "endBody"
      [] k = BodyEnd(b) + 1           -> "endEnvelope"
      [] OTHER                        -> "eof"

\* (mutant) the decoder does not stop at the end of the element handed to
\* UnmarshalXML
AfterBodyNoEOF(sc) == FALSE

\* Decoder.Token inside UnmarshalXML: once the end of Body has been read
\* the decoder answers io.EOF (unmarshalInterface's pushEOF)
AfterBodyEOF(sc) == sc.closed

\* the destinations the extractor is given
ScanShapes == {RespType("stream", "logOn"), RespType("stream", "getServiceAttributes"),
               FaultType}

\* the decoder has read <Envelope> and <Body> and calls body.UnmarshalXML
InitBody ==
    /\ variant = "stream"
    /\ url = "http://service.example/daisy"
    /\ timeout = "0s"
    /\ ctx = "todo"
    /\ jar = {}
    /\ pc = "idle"
    /\ op = ""
    /\ req = NoReq
    /\ posts = 0
    /\ doOut = NoDo
    /\ decodes = 0
    /\ decodedAs = "none"
    /\ dest = ZeroDest
    /\ callErr = Nil
    /\ result = NoResult
    /\ err = Nil
    /\ idleClosed = FALSE
    /\ codec = NoCodec
    /\ session = "fresh"
    /\ peer = NoPeer
    /\ auth = NoAuth
    /\ racer = NoRacer
    /\ \E T \in ScanShapes : \E b \in Bodies("logOn") \cup Bodies("getServiceAttributes") :
       \E bad \in {"none", "first", "firstLate", "trailing", "tail"} :
          /\ BadFits(bad, b)
          /\ scan = [phase |-> "loop", shape |-> T, body |-> b, bad |-> bad, pos |-> 0,
                     depth |-> 0, closed |-> FALSE, dest |-> ZeroDest, err |-> Nil]

\* token, err := d.Token() in the for loop, and the switch on the token
LoopToken ==
    /\ scan.phase = "loop"
    /\ LET k == TokenKind(scan.body, scan.pos + 1)
       IN  scan' =
             IF AfterBodyEOF(scan) \/ k = "eof"
             THEN [scan EXCEPT !.phase = "returned"]
             ELSE IF k = "start"
             THEN [scan EXCEPT !.pos = @ + 1, !.phase = "decode"]
             ELSE IF k = "endBody"
             THEN [scan EXCEPT !.pos = @ + 1, !.closed = TRUE]
             ELSE [scan EXCEPT !.pos = @ + 1]
    /\ UNCHANGED <<variant, url, timeout, ctx, jar, pc, op, req, posts, doOut, decodes,
                   decodedAs, dest, callErr, result, err, idleClosed, codec, session,
                   peer, auth, racer>>

\* d.DecodeElement(b.Content, &v): on success the element has been read to
\* its end token; an error ends UnmarshalXML where the decoder stands
DecodeFirst ==
    /\ scan.phase = "decode"
    /\ LET r == DecodeElement(scan.shape, scan.dest, Head(scan.body), scan.bad)
       IN  scan' =
             IF r.err # Nil
             THEN [scan EXCEPT !.phase = "returned", !.err = r.err, !.dest = r.dest]
             ELSE [scan EXCEPT !.phase = "skip", !.pos = @ + 1, !.dest = r.dest]
    /\ UNCHANGED <<variant, url, timeout, ctx, jar, pc, op, req, posts, doOut, decodes,
                   decodedAs, dest, callErr, result, err, idleClosed, codec, session,
                   peer, auth, racer>>

\* one round of the loop of d.Skip(): a start token goes one level down, an
\* end token one level up, the end token met at level 0 ends Skip
SkipToken ==
    /\ scan.phase = "skip"
    /\ LET k == TokenKind(scan.body, scan.pos + 1)
       IN  scan' =
             IF AfterBodyEOF(scan) \/ k = "eof"
             THEN [scan EXCEPT !.phase = "returned", !.err = DecodeErr("EOF")]
             ELSE IF k = "start" /\ scan.bad = "trailing" /\ scan.pos = 2
             THEN [scan EXCEPT !.pos = @ + 1, !.phase = "returned",
                               !.err = DecodeErr("syntax error")]
             ELSE IF k = "start"
             THEN [scan EXCEPT !.pos = @ + 1, !.depth = @ + 1]
             ELSE IF scan.depth > 0
             THEN [scan EXCEPT !.pos = @ + 1, !.depth = @ - 1]
             ELSE [scan EXCEPT !.pos = @ + 1, !.phase = "returned",
                               !.closed = (k = "endBody")]
    /\ UNCHANGED <<variant, url, timeout, ctx, jar, pc, op, req, posts, doOut, decodes,
                   decodedAs, dest, callErr, result, err, idleClosed, codec, session,
                   peer, auth, racer>>

NextBody == LoopToken \/ DecodeFirst \/ SkipToken

\* UnmarshalXML is ordinary sequential code: it takes its next step
SpecBody == InitBody /\ [][NextBody]_vars /\ WF_vars(NextBody)

---------------------------------------------------------------------------
(* Authentication (src/unnamed/part_001) *)

\* the operations of Authentication, in the order of its statements
AuthOps == <<"logOn", "getServiceAttributes", "setReadingSystemAttributes">>

\* (mutant) Authentication also returns when a bool operation returned false
AuthStopsOnFalse(e, r) == e # Nil \/ (r.ptr = "n/a" /\ ~r.flag)

\* if err != nil { return nil, err } after each of the three operations
AuthStops(e, r) == e # Nil

\* the operation whose statement follows that of o ("returned" after the last)
AuthFollowing(o) ==
    CASE o = "logOn"                -> "getServiceAttributes"
      [] o = "getServiceAttributes" -> "setReadingSystemAttributes"
      [] OTHER                      -> "returned"

\* Authentication is called on a new Client
InitAuth ==
    /\ variant = "legacy"
    /\ url \in Urls
    /\ timeout = "0s"
    /\ ctx = "none"
    /\ jar = {}
    /\ pc = "idle"
    /\ op = ""
    /\ req = NoReq
    /\ posts = 0
    /\ doOut = NoDo
    /\ decodes = 0
    /\ decodedAs = "none"
    /\ dest = ZeroDest
    /\ callErr = Nil
    /\ result = NoResult
    /\ err = Nil
    /\ idleClosed = FALSE
    /\ codec = NoCodec
    /\ session = "fresh"
    /\ peer = NoPeer
    /\ scan = NoScan
    /\ racer = NoRacer
    /\ auth = [at |-> "logOn", issued |-> <<>>, errs |-> <<>>, results |-> <<>>,
               attrs |-> NoResult, result |-> NoResult, err |-> Nil]

\* Authentication calls the facade its next statement names
AuthInvoke ==
    /\ auth.at \in {AuthOps[i] : i \in 1..3}
    /\ (InvokeSend(auth.at) \/ InvokeFail(auth.at))

\* the facade has returned to Authentication: it keeps the service
\* attributes, returns (nil, err) on an error, goes on to its next statement
\* otherwise and returns the attributes after the last one
AuthAdvance ==
    /\ pc = "done"
    /\ auth.at = op
    /\ LET stop == AuthStops(err, result)
           to == IF stop THEN "returned" ELSE AuthFollowing(op)
           kept == IF op = "getServiceAttributes" THEN result ELSE auth.attrs
       IN  auth' = [at |-> to,
                    issued |-> Append(auth.issued, op),
                    errs |-> Append(auth.errs, err),
                    results |-> Append(auth.results, result),
                    attrs |-> kept,
                    result |-> IF to = "returned" /\ ~stop THEN kept
                               ELSE IF stop THEN ZeroResult("getServiceAttributes")
                               ELSE NoResult,
                    err |-> IF stop THEN err ELSE Nil]
    /\ UNCHANGED <<variant, url, timeout, ctx, jar, pc, op, req, posts, doOut, decodes,
                   decodedAs, dest, callErr, result, err, idleClosed, codec, session,
                   peer, scan, racer>>

\* the facade's invocation is over
AuthFacadeOver ==
    /\ auth.at # op
    /\ Return

NextAuth ==
    \/ AuthInvoke
    \/ Respond
    \/ \E cause \in {"connection refused"} : TransportFail(cause)
    \/ AuthAdvance
    \/ AuthFacadeOver

SpecAuth == InitAuth /\ [][NextAuth]_vars

\* the first n operations of Authentication
AuthPrefix(n) == [i \in 1..n |-> AuthOps[i]]

(* C22: Authentication invokes logOn, getServiceAttributes and             *)
(* setReadingSystemAttributes in this order, each at most once; it has     *)
(* gone on after an operation exactly when that operation returned a nil   *)
(* error, whatever its result; after the first error it invokes nothing    *)
(* more and returns (nil, that error); it returns the service attributes   *)
(* that getServiceAttributes returned, with a nil error, only when all     *)
(* three returned nil errors.                                              *)
C22_AuthenticationSequence ==
    LET n == Len(auth.issued)
    IN  /\ n <= 3
        /\ auth.issued = AuthPrefix(n)
        /\ \A i \in 1..(n - 1) : auth.errs[i] = Nil
        /\ (pc # "idle" /\ auth.at = op => op = AuthOps[n + 1])
        /\ (pc # "idle" /\ auth.at # op => op = AuthOps[n])
        /\ (auth.at # "returned" =>
               /\ \A i \in 1..n : auth.errs[i] = Nil
               /\ auth.at = AuthOps[n + 1])
        /\ (auth.at = "returned" =>
               /\ n >= 1
               /\ (auth.errs[n] # Nil =>
                      /\ auth.err = auth.errs[n]
                      /\ auth.result = ZeroResult("getServiceAttributes"))
               /\ (auth.errs[n] = Nil =>
                      /\ n = 3
                      /\ auth.err = Nil
                      /\ auth.result = auth.results[2]
                      /\ auth.result.ptr = "&resp"))

\* logOn returned (false, nil) and Authentication went on to the end
C22_Witness ==
    /\ auth.at = "returned"
    /\ auth.issued = AuthPrefix(3)
    /\ auth.results[1].flag = FALSE
    /\ auth.results[3].flag = FALSE
    /\ auth.err = Nil
    /\ auth.result.payload # ""

---------------------------------------------------------------------------
(* Two calls at the same time on one Client (revision "stream") *)

\* the operation the first caller invokes, and the one the second invokes
\* while the first is under way
RaceOps == {"logOn"}

RacerOps == {"getServiceAttributes"}

\* what the service may answer to the second call
RacerResponses(o) ==
    {Response(st, "", "identity", "none", ck, d) :
        st \in {200, 500}, ck \in CookieActs, d \in SmallDocs(o)}

\* the second call is not running
IdleRacer ==
    [pc |-> "idle", op |-> "", req |-> NoReq, resp |-> NoResp,
     out |-> CallResult(Nil, ZeroDest, 0, "none")]

\* (mutant) the second call decodes what the first call received
RacerOutcomeShared(o, out) == CallAfterDo(variant, o, doOut)

\* the second call after httpClient.Do: the same code on its own locals
RacerOutcome(o, out) == CallAfterDo(variant, o, out)

\* a Client two goroutines share
InitRace ==
    /\ variant = "stream"
    /\ url = "http://service.example/daisy"
    /\ timeout = "30s"
    /\ ctx = "todo"
    /\ jar = {}
    /\ pc = "idle"
    /\ op = ""
    /\ req = NoReq
    /\ posts = 0
    /\ doOut = NoDo
    /\ decodes = 0
    /\ decodedAs = "none"
    /\ dest = ZeroDest
    /\ callErr = Nil
    /\ result = NoResult
    /\ err = Nil
    /\ idleClosed = FALSE
    /\ codec = NoCodec
    /\ session = "fresh"
    /\ peer = NoPeer
    /\ scan = NoScan
    /\ auth = NoAuth
    /\ racer = IdleRacer

\* the first caller invokes a facade
RaceInvoke == \E o \in RaceOps : InvokeSend(o)

\* The second caller's call reaches httpClient.Do: the request takes the
\* cookies the jar holds now.
RacerSend(o) ==
    /\ racer.pc = "idle"
    /\ RequestBuilds
    /\ racer' = [racer EXCEPT !.pc = "sent", !.op = o,
                              !.req = NewRequestOf(variant, o, jar)]
    /\ UNCHANGED <<variant, url, timeout, ctx, jar, pc, op, req, posts, doOut, decodes,
                   decodedAs, dest, callErr, result, err, idleClosed, codec, session,
                   peer, scan, auth>>

\* httpClient.Do returns a response to the second call: its Set-Cookie goes
\* into the Client's jar, the body is decoded into the second caller's
\* destination.
RacerRespond ==
    /\ racer.pc = "sent"
    /\ \E r \in RacerResponses(racer.op) :
          /\ jar' = SetCookies(jar, r.cookie)
          /\ racer' = [racer EXCEPT !.pc = "done", !.resp = r,
                                    !.out = RacerOutcome(racer.op, [err |-> Nil, resp |-> r])]
    /\ UNCHANGED <<variant, url, timeout, ctx, pc, op, req, posts, doOut, decodes,
                   decodedAs, dest, callErr, result, err, idleClosed, codec, session,
                   peer, scan, auth>>

\* the second caller has its return values
RacerReturn ==
    /\ racer.pc = "done"
    /\ racer' = IdleRacer
    /\ UNCHANGED <<variant, url, timeout, ctx, jar, pc, op, req, posts, doOut, decodes,
                   decodedAs, dest, callErr, result, err, idleClosed, codec, session,
                   peer, scan, auth>>

NextRace ==
    \/ RaceInvoke
    \/ Respond
    \/ Return
    \/ \E o \in RacerOps : RacerSend(o)
    \/ RacerRespond
    \/ RacerReturn

SpecRace == InitRace /\ [][NextRace]_vars

---------------------------------------------------------------------------
(* C24: when the call ends without reaching the status-200 path (the       *)
(* request was not built, httpClient.Do failed, gzip.NewReader failed, or  *)
(* the status is not 200, whether the Fault decodes or not), nothing was   *)
(* decoded into the caller's destination: it holds the zero value the      *)
(* facade gave it.                                                         *)
C24_DestOnlyOn200 ==
    (/\ pc = "done"
     /\ \/ posts = 0
        \/ doOut.err # Nil
        \/ GzipFails(doOut.resp)
        \/ doOut.resp.status # StatusOK) =>
        /\ dest = ZeroDest
        /\ decodedAs # "dest"
        /\ callErr # Nil

\* a status-500 response whose Body holds the operation's own response
C24_Witness ==
    /\ GotResponse
    /\ doOut.resp.status = 500
    /\ EnvelopeAccepted
    /\ HasFirst
    /\ FirstElement = GoodResponse(op)
    /\ dest = ZeroDest
    /\ decodedAs = "fault"

---------------------------------------------------------------------------
(* C25: the Client keeps the context it was built with.  A cancelled       *)
(* context stays cancelled, and every invocation on the Client from then   *)
(* on ends with a non-nil error and no decoding: httpClient.Do returns the *)
(* context's error (or, on a Client whose URL does not parse, the request  *)
(* is not built).  The context of NewClient (context.TODO) is never      *)
(* cancelled: a call of such a Client that ends inside httpClient.Do ends  *)
(* by a failure of the network or by the Client's timeout, the latter only *)
(* when a timeout was set.                                                 *)
C25_CancelledForGood ==
    [][/\ (ctx = "cancelled" => ctx' = "cancelled")
       /\ (ctx = "todo" => ctx' = "todo")
       /\ (ctx = "cancelled" /\ pc # "done" /\ pc' = "done") =>
              /\ err' # Nil
              /\ result' = ZeroResult(op')
              /\ decodes' = 0
              /\ dest' = ZeroDest
              /\ jar' = jar
       /\ (ctx = "cancelled" /\ pc = "sent" /\ pc' = "done") =>
              /\ doOut'.err = TransportErr("context canceled")
              /\ Innermost(err') = doOut'.err
       /\ (ctx = "todo" /\ pc = "sent" /\ pc' = "done" /\ doOut'.err # Nil) =>
              /\ doOut'.err # TransportErr("context canceled")
              /\ (doOut'.err = TransportErr("Client.Timeout exceeded") => timeout # "0s")]_vars

\* an operation invoked on a Client with cookies from earlier calls fails
\* on the cancelled context
C25_Witness ==
    /\ pc = "done"
    /\ ctx = "cancelled"
    /\ session = "on"
    /\ op = "getContentList"
    /\ jar = {"sid"}
    /\ req.cookies = {"sid"}
    /\ doOut.err = TransportErr("context canceled")
    /\ err # Nil

---------------------------------------------------------------------------
(* C26 as stated: a LogOff leaves the cookie jar, the URL, the timeout and *)
(* the context as they were, and the release of idle connections is the    *)
(* only local effect of a LogOff that returned a nil error.                *)
C26_Original ==
    [][(pc # "done" /\ pc' = "done" /\ op' = "logOff") =>
            /\ jar' = jar
            /\ url' = url
            /\ timeout' = timeout
            /\ ctx' = ctx
            /\ (err' = Nil => idleClosed')]_vars

(* C26 amended: LogOff itself clears nothing: it leaves the URL, the       *)
(* timeout and the context as they were, and the jar is changed only by    *)
(* the Set-Cookie of the logOff response, as after any other call; a       *)
(* LogOff that returned a nil error has released the idle connections; and *)
(* the operation invoked next is sent as ever, with the cookies the jar    *)
(* holds after that response.                                              *)
C26_LogOffKeepsClient ==
    [][/\ (pc # "done" /\ pc' = "done" /\ op' = "logOff") =>
              /\ jar' = IF posts' = 1 /\ doOut'.err = Nil
                        THEN SetCookies(jar, doOut'.resp.cookie)
                        ELSE jar
              /\ url' = url
              /\ timeout' = timeout
              /\ ctx' = ctx
              /\ (err' = Nil => idleClosed')
       /\ (session = "off" /\ pc = "idle" /\ pc' # "idle" /\ urlOK /\ ctx # "nil") =>
              /\ pc' = "sent"
              /\ req' = NewRequestOf(variant, op', jar)]_vars

\* after a LogOff whose response set no cookie, the next operation goes out
\* with the session cookie stored before the LogOff
C26_Witness ==
    /\ pc = "sent"
    /\ session = "off"
    /\ op = "getServiceAttributes"
    /\ req.cookies = {"sid"}
    /\ jar = {"sid"}

====
